---- MODULE Spec2Model ----
(***************************************************************************)
(* A model of wit-ai.js: the three operations speech, stream and text,     *)
(* each building one request options object, issuing one request and       *)
(* settling the promise it returns from the arguments of the request's     *)
(* callback.                                                               *)
(*                                                                         *)
(* JavaScript values are records tagged by a field t.  A response body is  *)
(* a sequence of JSON lexical tokens; JSON.parse is a recursive-descent    *)
(* parser over that sequence.                                              *)
(***************************************************************************)
EXTENDS Integers, Sequences, FiniteSets, TLC

(***************************************************************************)
(* Bounds.                                                                 *)
(***************************************************************************)
\* Number of invocations that may be outstanding at once.
MaxCalls == 2
\* The argument n ranges over 1..MaxN.
MaxN == 1

(***************************************************************************)
(* JavaScript values.                                                      *)
(***************************************************************************)
Undefined == [t |-> "undefined"]
Null == [t |-> "null"]
Str(s) == [t |-> "string", s |-> s]
Num(n) == [t |-> "number", n |-> n]
Bool(b) == [t |-> "boolean", b |-> b]
\* An object is the sequence of its own properties <<key, value>>, in
\* insertion order.
Obj(props) == [t |-> "object", props |-> props]
Arr(items) == [t |-> "array", items |-> items]
\* new <name>(message)
NewError(name, message) == [t |-> "error", name |-> name, message |-> message]
\* The response object handed to the callback.
Response(statusCode) == [t |-> "response", statusCode |-> statusCode]

\* if(v): the truthiness of a value.
Truthy(v) ==
    CASE v.t = "undefined" -> FALSE
      [] v.t = "null" -> FALSE
      [] v.t = "boolean" -> v.b
      [] v.t = "number" -> v.n # 0
      [] v.t = "string" -> v.s # ""
      [] OTHER -> TRUE

\* v.k for a value v that is neither null nor undefined: the own property k
\* of an object, undefined for anything else (no prototype of a parsed JSON
\* value has a property named error or code).
RECURSIVE Lookup(_, _, _)
Lookup(props, k, i) ==
    IF i > Len(props) THEN Undefined
    ELSE IF props[i][1] = k THEN props[i][2]
    ELSE Lookup(props, k, i + 1)

Get(v, k) == IF v.t = "object" THEN Lookup(v.props, k, 1) ELSE Undefined

\* `${v}`: the string a template literal puts in place of a value.
RECURSIVE ToStr(_)
RECURSIVE Join(_, _)
Join(items, i) ==
    IF i > Len(items) THEN ""
    ELSE (IF items[i].t \in {"null", "undefined"} THEN "" ELSE ToStr(items[i]))
         \o (IF i < Len(items) THEN "," ELSE "")
         \o Join(items, i + 1)

ToStr(v) ==
    CASE v.t = "undefined" -> "undefined"
      [] v.t = "null" -> "null"
      [] v.t = "boolean" -> IF v.b THEN "true" ELSE "false"
      [] v.t = "number" -> ToString(v.n)
      [] v.t = "string" -> v.s
      [] v.t = "array" -> Join(v.items, 1)
      [] v.t = "error" -> v.name \o ": " \o v.message
      [] OTHER -> "[object Object]"

(***************************************************************************)
(* Completions: a call returns a value or throws.                          *)
(***************************************************************************)
Return(v) == [threw |-> FALSE, val |-> v]
Throw(e) == [threw |-> TRUE, exc |-> e]

(***************************************************************************)
(* JSON text as a sequence of tokens, and JSON.parse.                      *)
(***************************************************************************)
LBrace == [k |-> "{"]
RBrace == [k |-> "}"]
LBrack == [k |-> "["]
RBrack == [k |-> "]"]
Colon == [k |-> ":"]
Comma == [k |-> ","]
TNull == [k |-> "null"]
TTrue == [k |-> "true"]
TFalse == [k |-> "false"]
TStr(s) == [k |-> "string", s |-> s]
TNum(n) == [k |-> "number", n |-> n]
\* Text that starts no JSON token, such as the < of an HTML error page.
TBad == [k |-> "<"]

Ok(v, next) == [ok |-> TRUE, val |-> v, next |-> next]
Fail == [ok |-> FALSE]

Is(b, i, k) == i <= Len(b) /\ b[i].k = k

\* Defining property k of an object under construction: a repeated key
\* keeps its place and takes the later value.
RECURSIVE SetProp(_, _, _, _)
SetProp(props, k, v, i) ==
    IF i > Len(props) THEN Append(props, <<k, v>>)
    ELSE IF props[i][1] = k THEN [props EXCEPT ![i] = <<k, v>>]
    ELSE SetProp(props, k, v, i + 1)

RECURSIVE ParseValue(_, _)
RECURSIVE ParseElements(_, _, _)
RECURSIVE ParseMembers(_, _, _)

ParseValue(b, i) ==
    IF i > Len(b) THEN Fail
    ELSE CASE b[i].k = "null" -> Ok(Null, i + 1)
           [] b[i].k = "true" -> Ok(Bool(TRUE), i + 1)
           [] b[i].k = "false" -> Ok(Bool(FALSE), i + 1)
           [] b[i].k = "string" -> Ok(Str(b[i].s), i + 1)
           [] b[i].k = "number" -> Ok(Num(b[i].n), i + 1)
           [] b[i].k = "[" ->
                IF Is(b, i + 1, "]") THEN Ok(Arr(<<>>), i + 2)
                ELSE ParseElements(b, i + 1, <<>>)
           [] b[i].k = "{" ->
                IF Is(b, i + 1, "}") THEN Ok(Obj(<<>>), i + 2)
                ELSE ParseMembers(b, i + 1, <<>>)
           [] OTHER -> Fail

ParseElements(b, i, acc) ==
    LET r == ParseValue(b, i) IN
    IF ~r.ok THEN Fail
    ELSE IF Is(b, r.next, ",") THEN ParseElements(b, r.next + 1, Append(acc, r.val))
    ELSE IF Is(b, r.next, "]") THEN Ok(Arr(Append(acc, r.val)), r.next + 1)
    ELSE Fail

ParseMembers(b, i, acc) ==
    IF ~(Is(b, i, "string") /\ Is(b, i + 1, ":")) THEN Fail
    ELSE LET r == ParseValue(b, i + 2) IN
         IF ~r.ok THEN Fail
         ELSE LET props == SetProp(acc, b[i].s, r.val, 1) IN
              IF Is(b, r.next, ",") THEN ParseMembers(b, r.next + 1, props)
              ELSE IF Is(b, r.next, "}") THEN Ok(Obj(props), r.next + 1)
              ELSE Fail

\* JSON.parse(body): the parsed value when the whole text is one JSON value,
\* a thrown SyntaxError otherwise.
JSONparse(body) ==
    LET r == ParseValue(body, 1) IN
    IF r.ok /\ r.next = Len(body) + 1 THEN Return(r.val)
    ELSE Throw(NewError("SyntaxError", "Unexpected token"))

(***************************************************************************)
(* The module's code.                                                      *)
(***************************************************************************)
\* isError(res): res.error !== undefined && res.code !== undefined.  Reading
\* a property of null throws a TypeError.
isError(res) ==
    IF res.t \in {"null", "undefined"}
    THEN Throw(NewError("TypeError", "Cannot read properties of " \o res.t))
    ELSE Return(Get(res, "error").t # "undefined" /\ Get(res, "code").t # "undefined")

\* What one run of a handler does: it calls reject or resolve with arg, or
\* an exception arg escapes it; parsed tells whether JSON.parse was called.
Effect(do, arg, parsed) == [do |-> do, arg |-> arg, parsed |-> parsed]

\* `${response.code}: ${response.error}`
Message(response) == ToStr(Get(response, "code")) \o ": " \o ToStr(Get(response, "error"))

\* speechHandler, had it parsed the body before looking at the error.
speechHandlerParseFirst(error, res, body) ==
    LET response == JSONparse(body) IN
    IF response.threw THEN Effect("throw", response.exc, TRUE)
    ELSE IF Truthy(error) THEN Effect("reject", error, TRUE)
    ELSE LET e == isError(response.val) IN
         IF e.threw THEN Effect("throw", e.exc, TRUE)
         ELSE IF e.val
              THEN Effect("reject", NewError("Error", Message(response.val)), TRUE)
              ELSE Effect("resolve", response.val, TRUE)

speechHandler(error, res, body) ==
    IF Truthy(error) THEN Effect("reject", error, FALSE)
    ELSE LET response == JSONparse(body) IN
         IF response.threw THEN Effect("throw", response.exc, TRUE)
         ELSE LET e == isError(response.val) IN
              IF e.threw THEN Effect("throw", e.exc, TRUE)
              ELSE IF e.val
                   THEN Effect("reject", NewError("Error", Message(response.val)), TRUE)
                   ELSE Effect("resolve", response.val, TRUE)

\* streamHandler, had it rejected every response with an HTTP error status.
streamHandlerStatus(error, res, body) ==
    IF Truthy(error) THEN Effect("reject", error, FALSE)
    ELSE IF res.t = "response" /\ res.statusCode >= 400
         THEN Effect("reject", NewError("Error", ToString(res.statusCode)), FALSE)
    ELSE LET response == JSONparse(body) IN
         IF response.threw THEN Effect("throw", response.exc, TRUE)
         ELSE LET e == isError(response.val) IN
              IF e.threw THEN Effect("throw", e.exc, TRUE)
              ELSE IF e.val
                   THEN Effect("reject", NewError("Error", Message(response.val)), TRUE)
                   ELSE Effect("resolve", response.val, TRUE)

streamHandler(error, res, body) ==
    IF Truthy(error) THEN Effect("reject", error, FALSE)
    ELSE LET response == JSONparse(body) IN
         IF response.threw THEN Effect("throw", response.exc, TRUE)
         ELSE LET e == isError(response.val) IN
              IF e.threw THEN Effect("throw", e.exc, TRUE)
              ELSE IF e.val
                   THEN Effect("reject", NewError("Error", Message(response.val)), TRUE)
                   ELSE Effect("resolve", response.val, TRUE)

\* textHandler, had it written the message as `${response.error}: ${response.code}`.
textHandlerSwapped(error, res, body) ==
    IF Truthy(error) THEN Effect("reject", error, FALSE)
    ELSE LET response == JSONparse(body) IN
         IF response.threw THEN Effect("throw", response.exc, TRUE)
         ELSE LET e == isError(response.val) IN
              IF e.threw THEN Effect("throw", e.exc, TRUE)
              ELSE IF e.val
                   THEN Effect("reject",
                               NewError("Error", ToStr(Get(response.val, "error")) \o ": "
                                                 \o ToStr(Get(response.val, "code"))),
                               TRUE)
                   ELSE Effect("resolve", response.val, TRUE)

textHandler(error, res, body) ==
    IF Truthy(error) THEN Effect("reject", error, FALSE)
    ELSE LET response == JSONparse(body) IN
         IF response.threw THEN Effect("throw", response.exc, TRUE)
         ELSE LET e == isError(response.val) IN
              IF e.threw THEN Effect("throw", e.exc, TRUE)
              ELSE IF e.val
                   THEN Effect("reject", NewError("Error", Message(response.val)), TRUE)
                   ELSE Effect("resolve", response.val, TRUE)

\* speechOptions, had it passed thread_id on in the query string.
speechOptionsThread(token, bin, context, msg_id, thread_id, n) ==
    [url |-> "https://api.wit.ai/speech",
     method |-> "POST",
     headers |-> ("Content-Type" :> "audio/wav")
                 @@ ("Authorization" :> "Bearer " \o token)
                 @@ ("Accept" :> "application/json"),
     qs |-> [context |-> context, msg_id |-> msg_id, thread_id |-> thread_id, n |-> n],
     body |-> bin]

speechOptions(token, bin, context, msg_id, thread_id, n) ==
    [url |-> "https://api.wit.ai/speech",
     method |-> "POST",
     headers |-> ("Content-Type" :> "audio/wav")
                 @@ ("Authorization" :> "Bearer " \o token)
                 @@ ("Accept" :> "application/json"),
     qs |-> [context |-> context, msg_id |-> msg_id, n |-> n],
     body |-> bin]

\* streamOptions, had it left the Transfer-encoding header out.
streamOptionsNoChunked(token, stream, context, msg_id, thread_id, n) ==
    [url |-> "https://api.wit.ai/speech",
     method |-> "POST",
     headers |-> ("Content-Type" :> "audio/wav")
                 @@ ("Authorization" :> "Bearer " \o token)
                 @@ ("Accept" :> "application/json"),
     qs |-> [context |-> context, msg_id |-> msg_id, n |-> n],
     body |-> stream]

streamOptions(token, stream, context, msg_id, thread_id, n) ==
    [url |-> "https://api.wit.ai/speech",
     method |-> "POST",
     headers |-> ("Content-Type" :> "audio/wav")
                 @@ ("Transfer-encoding" :> "chunked")
                 @@ ("Authorization" :> "Bearer " \o token)
                 @@ ("Accept" :> "application/json"),
     qs |-> [context |-> context, msg_id |-> msg_id, n |-> n],
     body |-> stream]

\* textOptions, had it sent the query as the body of a POST.
textOptionsBody(token, q, context, msg_id, thread_id, n, verbose) ==
    [url |-> "https://api.wit.ai/message",
     method |-> "POST",
     headers |-> ("Authorization" :> "Bearer " \o token)
                 @@ ("Accept" :> "application/json"),
     qs |-> [context |-> context, msg_id |-> msg_id, n |-> n, verbose |-> verbose],
     body |-> q]

textOptions(token, q, context, msg_id, thread_id, n, verbose) ==
    [url |-> "https://api.wit.ai/message",
     method |-> "GET",
     headers |-> ("Authorization" :> "Bearer " \o token)
                 @@ ("Accept" :> "application/json"),
     qs |-> [q |-> q, context |-> context, msg_id |-> msg_id, n |-> n,
             verbose |-> verbose]]

\* The options object an invocation with arguments a builds.
OptionsOf(a) ==
    CASE a.op = "speech" ->
           speechOptions(a.token, a.payload, a.context, a.msg_id, a.thread_id, a.n)
      [] a.op = "stream" ->
           streamOptions(a.token, a.payload, a.context, a.msg_id, a.thread_id, a.n)
      [] a.op = "text" ->
           textOptions(a.token, a.payload, a.context, a.msg_id, a.thread_id, a.n,
                       a.verbose)

\* The handler an invocation of op hands to request.
HandlerOf(op, error, res, body) ==
    CASE op = "speech" -> speechHandler(error, res, body)
      [] op = "stream" -> streamHandler(error, res, body)
      [] op = "text" -> textHandler(error, res, body)

\* request, had the request been issued a second time.
requestTwice(log, options) == Append(Append(log, options), options)

\* request(options, handler): one outbound request, appended to the log of
\* the requests the invocation has issued.
request(log, options) == Append(log, options)

\* new Promise(...): a promise is settled at most once.
Pending == [state |-> "pending"]
resolve(p, v) == IF p.state = "pending" THEN [state |-> "fulfilled", value |-> v] ELSE p
reject(p, v) == IF p.state = "pending" THEN [state |-> "rejected", value |-> v] ELSE p

\* settle, had resolve and reject been kept in one place shared by every
\* invocation: the handler settles whichever promises are still pending.
settleShared(promises, i, eff) ==
    [j \in DOMAIN promises |->
        IF promises[j].state # "pending" THEN promises[j]
        ELSE CASE eff.do = "resolve" -> resolve(promises[j], eff.arg)
               [] eff.do = "reject" -> reject(promises[j], eff.arg)
               [] OTHER -> promises[j]]

\* The handler of invocation i closes over the resolve and reject of the
\* promise that invocation created.
settle(promises, i, eff) ==
    CASE eff.do = "resolve" -> [promises EXCEPT ![i] = resolve(@, eff.arg)]
      [] eff.do = "reject" -> [promises EXCEPT ![i] = reject(@, eff.arg)]
      [] OTHER -> promises

(***************************************************************************)
(* Inputs.                                                                 *)
(***************************************************************************)
Calls == 1 .. MaxCalls

Audio(id) == [t |-> "audio", id |-> id]
AContext == Obj(<< <<"timezone", Str("Europe/Zurich")>>, <<"locale", Str("en_GB")>> >>)

Args(op, token, payload, context, msg_id, thread_id, n, verbose) ==
    [op |-> op, token |-> token, payload |-> payload, context |-> context,
     msg_id |-> msg_id, thread_id |-> thread_id, n |-> n, verbose |-> verbose]

\* The argument lists of the three operations over the given value sets;
\* speech and stream take no verbose.
ArgsOver(tokens, audios, queries, contexts, msg_ids, thread_ids, ns, verboses) ==
    { Args(op, tk, a, c, m, th, n, Undefined) :
        op \in {"speech", "stream"}, tk \in tokens, a \in audios, c \in contexts,
        m \in msg_ids, th \in thread_ids, n \in ns }
    \cup
    { Args("text", x[1], x[2], c, m, th, n, x[3]) :
        x \in tokens \X queries \X verboses, c \in contexts,
        m \in msg_ids, th \in thread_ids, n \in ns }

ThreadIds == {Str("th1"), Str("th2")}

ManyArgs ==
    ArgsOver({"T1", "T2"}, {Audio(1), Audio(2)}, {Str("hello"), Str("")},
             {Undefined, AContext}, {Undefined, Str("m1")}, ThreadIds,
             {Num(n) : n \in 1 .. MaxN}, {Bool(TRUE), Bool(FALSE)})

FewArgs ==
    ArgsOver({"T1"}, {Audio(1)}, {Str("hello")}, {AContext}, {Str("m1")},
             ThreadIds, {Num(1)}, {Bool(TRUE)})

\* Transport errors.
Refused == NewError("Error", "connect ECONNREFUSED")
TimedOut == NewError("Error", "ETIMEDOUT")

\* Response bodies.
\* {"code":"bad-auth","error":"invalid token"}
BadAuth ==
    <<LBrace, TStr("code"), Colon, TStr("bad-auth"), Comma,
      TStr("error"), Colon, TStr("invalid token"), RBrace>>
\* {"error":"Bad auth","code":401,"hint":[1,null,"x"]}
NumericCode ==
    <<LBrace, TStr("error"), Colon, TStr("Bad auth"), Comma, TStr("code"), Colon,
      TNum(401), Comma, TStr("hint"), Colon,
      LBrack, TNum(1), Comma, TNull, Comma, TStr("x"), RBrack, RBrace>>
\* {"code":"a","error":null,"code":["b",2]}
RepeatedCode ==
    <<LBrace, TStr("code"), Colon, TStr("a"), Comma, TStr("error"), Colon, TNull,
      Comma, TStr("code"), Colon, LBrack, TStr("b"), Comma, TNum(2), RBrack, RBrace>>
\* {"code":{},"error":false}
ObjectCode ==
    <<LBrace, TStr("code"), Colon, LBrace, RBrace, Comma,
      TStr("error"), Colon, TFalse, RBrace>>
\* {"error":"invalid token"}
OnlyError == <<LBrace, TStr("error"), Colon, TStr("invalid token"), RBrace>>
\* {"code":"bad-auth"}
OnlyCode == <<LBrace, TStr("code"), Colon, TStr("bad-auth"), RBrace>>
\* {"msg_id":"m1","_text":"hello","entities":{}}
Meaning ==
    <<LBrace, TStr("msg_id"), Colon, TStr("m1"), Comma, TStr("_text"), Colon,
      TStr("hello"), Comma, TStr("entities"), Colon, LBrace, RBrace, RBrace>>
\* {"entities":{"error":"e","code":"c"}}
NestedError ==
    <<LBrace, TStr("entities"), Colon, LBrace, TStr("error"), Colon, TStr("e"),
      Comma, TStr("code"), Colon, TStr("c"), RBrace, RBrace>>
\* null
JustNull == <<TNull>>
\* [{"error":"e","code":"c"}]
AnArray ==
    <<LBrack, LBrace, TStr("error"), Colon, TStr("e"), Comma,
      TStr("code"), Colon, TStr("c"), RBrace, RBrack>>
\* "error code"
AString == <<TStr("error code")>>
\* 0
ANumber == <<TNum(0)>>
\* true
ABoolean == <<TTrue>>
\* <html>
Html == <<TBad>>
\* the empty body
Empty == <<>>
\* {"code":"bad-auth","error":"invalid token"
Truncated ==
    <<LBrace, TStr("code"), Colon, TStr("bad-auth"), Comma,
      TStr("error"), Colon, TStr("invalid token")>>
\* {"code":"bad-auth","error":"invalid token"}}
Trailing == BadAuth \o <<RBrace>>
\* {"code":"bad-auth",}
TrailingComma == <<LBrace, TStr("code"), Colon, TStr("bad-auth"), Comma, RBrace>>

ManyBodies ==
    {BadAuth, NumericCode, RepeatedCode, ObjectCode, OnlyError, OnlyCode, Meaning,
     NestedError, JustNull, AnArray, AString, ANumber, ABoolean, Html, Empty,
     Truncated, Trailing, TrailingComma}

FewBodies == {BadAuth, Meaning, JustNull, Html}

CallbackArgs(error, res, body) == [error |-> error, res |-> res, body |-> body]

\* request runs the callback with a null error and the response it got, or
\* with the transport error; a handler that is given an error may be given
\* anything as response and body.
ManyCallbackArgs ==
    { CallbackArgs(Null, r, b) :
        r \in {Response(200), Response(401), Response(502)}, b \in ManyBodies }
    \cup
    { CallbackArgs(e, r, b) :
        e \in {Refused, TimedOut}, r \in {Undefined, Response(502)}, b \in ManyBodies }

FewCallbackArgs ==
    { CallbackArgs(e, r, b) :
        e \in {Null, Refused}, r \in {Response(200)}, b \in FewBodies }

(***************************************************************************)
(* State.                                                                  *)
(***************************************************************************)
VARIABLES
    pc,        \* pc[i]: "idle" (not called), "waiting" (request issued, callback
               \* not yet run) or "done" (callback has run)
    args,      \* args[i]: the arguments invocation i was called with
    wire,      \* wire[i]: the requests invocation i has issued, in order
    promise,   \* promise[i]: the promise invocation i returned
    cbargs,    \* cbargs[i]: the arguments the callback of i was run with
    parsed,    \* parsed[i]: JSON.parse has been called for i
    uncaught   \* uncaught[i]: the exceptions that escaped the callback of i

vars == <<pc, args, wire, promise, cbargs, parsed, uncaught>>

None == [t |-> "none"]
\* The promise of an invocation that has not been made.
NoPromise == [state |-> "none"]

Init ==
    /\ pc = [i \in Calls |-> "idle"]
    /\ args = [i \in Calls |-> None]
    /\ wire = [i \in Calls |-> <<>>]
    /\ promise = [i \in Calls |-> NoPromise]
    /\ cbargs = [i \in Calls |-> None]
    /\ parsed = [i \in Calls |-> FALSE]
    /\ uncaught = [i \in Calls |-> <<>>]

\* The caller invokes speech, stream or text with arguments a: the promise
\* is created and its executor builds the options and issues the request.
\* Invocations are numbered in the order they are made.
Call(i, argSet) ==
    /\ pc[i] = "idle"
    /\ \A j \in Calls : j < i => pc[j] # "idle"
    /\ \E a \in argSet :
         /\ args' = [args EXCEPT ![i] = a]
         /\ promise' = [promise EXCEPT ![i] = Pending]
         /\ wire' = [wire EXCEPT ![i] = request(@, OptionsOf(a))]
    /\ pc' = [pc EXCEPT ![i] = "waiting"]
    /\ UNCHANGED <<cbargs, parsed, uncaught>>

\* request runs the handler of invocation i, once, with arguments c.
Callback(i, cbSet) ==
    /\ pc[i] = "waiting"
    /\ \E c \in cbSet :
         LET eff == HandlerOf(args[i].op, c.error, c.res, c.body) IN
         /\ cbargs' = [cbargs EXCEPT ![i] = c]
         /\ promise' = settle(promise, i, eff)
         /\ parsed' = [parsed EXCEPT ![i] = eff.parsed]
         /\ uncaught' = [uncaught EXCEPT
                           ![i] = IF eff.do = "throw" THEN Append(@, eff.arg) ELSE @]
    /\ pc' = [pc EXCEPT ![i] = "done"]
    /\ UNCHANGED <<args, wire>>

\* Several invocations outstanding at once, their callbacks in any order.
Next == \E i \in Calls : Call(i, FewArgs) \/ Callback(i, FewCallbackArgs)

Spec == Init /\ [][Next]_vars

\* One invocation, over the wide input sets.
NextOne == Call(1, ManyArgs) \/ Callback(1, ManyCallbackArgs)

SpecOne == Init /\ [][NextOne]_vars

(***************************************************************************)
(* Vocabulary of the properties.                                           *)
(***************************************************************************)
Called(i) == pc[i] # "idle"
Done(i) == pc[i] = "done"
NoTransportError(i) == cbargs[i].error.t \in {"null", "undefined"}

\* The body given to the callback of i is well-formed JSON text.
WellFormed(i) == ~JSONparse(cbargs[i].body).threw
Parsed(i) == JSONparse(cbargs[i].body).val

\* v is a JSON object with a field k; the value of that field.
Has(v, k) == v.t = "object" /\ \E j \in 1 .. Len(v.props) : v.props[j][1] = k
Field(v, k) == v.props[CHOOSE j \in 1 .. Len(v.props) : v.props[j][1] = k][2]
BothFields(v) == Has(v, "error") /\ Has(v, "code")

\* A string as a template literal renders a JSON scalar.
Rendered(v) ==
    CASE v.t = "string" -> v.s
      [] v.t = "number" -> ToString(v.n)
      [] v.t = "null" -> "null"
      [] v.t = "boolean" -> IF v.b THEN "true" ELSE "false"
      [] OTHER -> ToStr(v)

Rejected(i, reason) == promise[i] = [state |-> "rejected", value |-> reason]
Fulfilled(i, value) == promise[i] = [state |-> "fulfilled", value |-> value]

\* The one request of invocation i.
Req(i) == wire[i][1]

(***************************************************************************)
(* C1.  Whenever the callback fires without a transport error and the body *)
(* parses to a JSON object with both an error and a code field, the        *)
(* promise is rejected with an Error whose message is the code, a colon    *)
(* and a space, then the error; for {"code":"bad-auth","error":"invalid    *)
(* token"} that is "bad-auth: invalid token".                              *)
(***************************************************************************)
C1_ApiErrorRejects ==
    \A i \in Calls :
        (Done(i) /\ NoTransportError(i) /\ WellFormed(i) /\ BothFields(Parsed(i))) =>
            /\ Rejected(i, NewError("Error",
                   Rendered(Field(Parsed(i), "code")) \o ": "
                   \o Rendered(Field(Parsed(i), "error"))))
            /\ cbargs[i].body = BadAuth =>
                   promise[i].value.message = "bad-auth: invalid token"
            /\ cbargs[i].body = NumericCode => promise[i].value.message = "401: Bad auth"
            /\ uncaught[i] = <<>>

C1_Witness ==
    \E i \in Calls :
        /\ Done(i) /\ args[i].op = "text"
        /\ cbargs[i] = CallbackArgs(Null, Response(200), BadAuth)
        /\ Rejected(i, NewError("Error", "bad-auth: invalid token"))

(***************************************************************************)
(* C2.  Whenever the callback fires without a transport error and the body *)
(* is well-formed JSON text that does not carry both error and code (a     *)
(* body with one of the two, or a JSON value that is not an object, such   *)
(* as null, included), the promise is resolved with the parsed value.      *)
(***************************************************************************)
C2_WellFormedResolves ==
    \A i \in Calls :
        (Done(i) /\ NoTransportError(i) /\ WellFormed(i) /\ ~BothFields(Parsed(i))) =>
            Fulfilled(i, Parsed(i))

(***************************************************************************)
(* C3.  Once the callback has run, whatever its arguments, the promise is  *)
(* settled, and it is rejected unless the request yielded a usable         *)
(* success response: no invocation stays pending after its callback.       *)
(***************************************************************************)
UsableSuccess(i) == NoTransportError(i) /\ WellFormed(i) /\ ~BothFields(Parsed(i))

C3_CallbackSettles ==
    \A i \in Calls :
        Done(i) =>
            /\ promise[i].state \in {"fulfilled", "rejected"}
            /\ ~UsableSuccess(i) => promise[i].state = "rejected"

(***************************************************************************)
(* C4.  When the callback fires with a transport error, the promise is     *)
(* rejected with that same error value, the body is never parsed, and the  *)
(* rejection is not an API error built from code and error, whatever the   *)
(* body holds.                                                             *)
(***************************************************************************)
C4_TransportErrorRejects ==
    \A i \in Calls :
        (Done(i) /\ ~NoTransportError(i)) =>
            /\ Rejected(i, cbargs[i].error)
            /\ ~parsed[i]
            /\ uncaught[i] = <<>>

C4_Witness ==
    \E i \in Calls :
        /\ Done(i) /\ args[i].op = "speech"
        /\ cbargs[i] = CallbackArgs(Refused, Undefined, BadAuth)
        /\ Rejected(i, Refused)
        /\ ~parsed[i]

(***************************************************************************)
(* C5.  The request of text is a GET to https://api.wit.ai/message whose   *)
(* query-string parameters are exactly q, context, msg_id, n and verbose   *)
(* and which has no body; the request of speech and of stream is a POST to *)
(* https://api.wit.ai/speech whose body is the audio argument and whose    *)
(* query-string parameters are exactly context, msg_id and n, so the audio *)
(* is in no query-string parameter.                                        *)
(***************************************************************************)
C5_RequestShape ==
    \A i \in Calls :
        Called(i) =>
            /\ Len(wire[i]) = 1
            /\ args[i].op = "text" =>
                 /\ Req(i).method = "GET"
                 /\ Req(i).url = "https://api.wit.ai/message"
                 /\ DOMAIN Req(i).qs = {"q", "context", "msg_id", "n", "verbose"}
                 /\ Req(i).qs.q = args[i].payload
                 /\ Req(i).qs.context = args[i].context
                 /\ Req(i).qs.msg_id = args[i].msg_id
                 /\ Req(i).qs.n = args[i].n
                 /\ Req(i).qs.verbose = args[i].verbose
                 /\ "body" \notin DOMAIN Req(i)
            /\ args[i].op \in {"speech", "stream"} =>
                 /\ Req(i).method = "POST"
                 /\ Req(i).url = "https://api.wit.ai/speech"
                 /\ DOMAIN Req(i).qs = {"context", "msg_id", "n"}
                 /\ Req(i).qs.context = args[i].context
                 /\ Req(i).qs.msg_id = args[i].msg_id
                 /\ Req(i).qs.n = args[i].n
                 /\ "body" \in DOMAIN Req(i)
                 /\ Req(i).body = args[i].payload
                 /\ \A k \in DOMAIN Req(i).qs : Req(i).qs[k] # args[i].payload

C5_Witness ==
    \E i \in Calls :
        /\ pc[i] = "waiting"
        /\ args[i] = Args("text", "T2", Str("hello"), AContext, Str("m1"), Str("th1"),
                          Num(1), Bool(FALSE))
        /\ Req(i).method = "GET"
        /\ Req(i).qs.q = Str("hello")

(***************************************************************************)
(* C6.  For the same arguments, the request of stream differs from the     *)
(* request of speech in exactly one header: Transfer-encoding: chunked is  *)
(* in every stream request and in no speech request; URL, method, the      *)
(* other headers, the query-string parameters and the outcome for the same *)
(* callback arguments are the same.                                        *)
(***************************************************************************)
SameButOp(a, b) == a = [b EXCEPT !.op = a.op]

C6_StreamIsChunkedSpeech ==
    /\ \A i \in Calls :
         Called(i) =>
            /\ args[i].op = "stream" =>
                 /\ "Transfer-encoding" \in DOMAIN Req(i).headers
                 /\ Req(i).headers["Transfer-encoding"] = "chunked"
            /\ args[i].op = "speech" => "Transfer-encoding" \notin DOMAIN Req(i).headers
    /\ \A i, j \in Calls :
         (/\ Called(i) /\ Called(j)
          /\ args[i].op = "speech" /\ args[j].op = "stream"
          /\ SameButOp(args[i], args[j])) =>
            /\ [Req(j) EXCEPT !.headers = Req(i).headers] = Req(i)
            /\ DOMAIN Req(j).headers = DOMAIN Req(i).headers \cup {"Transfer-encoding"}
            /\ \A h \in DOMAIN Req(i).headers : Req(j).headers[h] = Req(i).headers[h]
            /\ (Done(i) /\ Done(j) /\ cbargs[i] = cbargs[j]) =>
                 /\ promise[i] = promise[j]
                 /\ uncaught[i] = uncaught[j]

C6_Witness ==
    \E i, j \in Calls :
        /\ Done(i) /\ Done(j)
        /\ args[i].op = "speech" /\ args[j].op = "stream"
        /\ SameButOp(args[i], args[j])
        /\ cbargs[i] = cbargs[j]
        /\ cbargs[i].body = BadAuth
        /\ Req(j).headers["Transfer-encoding"] = "chunked"
        /\ promise[i].state = "rejected" /\ promise[j] = promise[i]

(***************************************************************************)
(* C7.  Each invocation issues exactly one request over its lifetime: one  *)
(* when the function is called, and none after its callback has run,       *)
(* whether the outcome is a transport error, an API error or a success.    *)
(***************************************************************************)
C7_OneRequest ==
    [][\A i \in Calls :
          /\ pc'[i] # "idle" => Len(wire'[i]) = 1
          /\ pc[i] # "idle" => wire'[i] = wire[i]
          /\ pc'[i] = "idle" => wire'[i] = <<>>]_vars

C7_Witness ==
    \E i, j \in Calls :
        /\ Done(i) /\ Done(j)
        /\ cbargs[i].error = Refused /\ promise[i].state = "rejected"
        /\ cbargs[j].error = Null /\ cbargs[j].body = BadAuth
        /\ promise[j].state = "rejected"
        /\ Len(wire[i]) = 1 /\ Len(wire[j]) = 1

(***************************************************************************)
(* C8.  With several invocations outstanding, under every interleaving of  *)
(* their callbacks, the request of each is the one its own arguments build *)
(* and its promise is settled by its own callback arguments alone: it is   *)
(* pending until its own callback runs, whatever the others have done.     *)
(***************************************************************************)
\* The promise of an invocation of op once its handler has run with error,
\* res and body.
OutcomeOf(op, error, res, body) ==
    LET eff == HandlerOf(op, error, res, body) IN
    CASE eff.do = "resolve" -> [state |-> "fulfilled", value |-> eff.arg]
      [] eff.do = "reject" -> [state |-> "rejected", value |-> eff.arg]
      [] OTHER -> Pending

OwnOutcome(i) == OutcomeOf(args[i].op, cbargs[i].error, cbargs[i].res, cbargs[i].body)

SameButThread(a, b) == a = [b EXCEPT !.thread_id = a.thread_id]

Status2xx(res) == res.t = "response" /\ res.statusCode \in 200 .. 299
StatusNot2xx(res) == res.t = "response" /\ res.statusCode \notin 200 .. 299
AnyResponse == {c.res : c \in ManyCallbackArgs}

====
